---- MODULE Spec2Model ----
(***************************************************************************)
(* Model of src/route.rs of selfhost-dashboard: the request dispatcher,    *)
(* its typed "safe string" wrappers, the error taxonomy, the login/signup  *)
(* state machine and the application launch authorizer.                    *)
(*                                                                         *)
(* Strings whose characters the code inspects (resource paths, application *)
(* names) are sequences of Unicode code points; strings the code only      *)
(* compares or copies (user names, passwords, URLs) are TLA+ strings.      *)
(***************************************************************************)
EXTENDS Integers, Sequences, FiniteSets, TLC

VARIABLES
    users,      \* the user store: valid name -> account record or NoAccount
    pc,         \* task -> position of the task's current request
    req,        \* task -> the request being handled
    resp,       \* task -> the response produced (NoResp while in flight)
    user,       \* task -> the user::Authenticated of the request (or NoAuth)
    trace,      \* task -> the external calls the request has made, in order
    input,      \* the string handed to a validating constructor
    out         \* the result of the constructor last applied to input

vars == <<users, pc, req, resp, user, trace, input, out>>

reqVars == <<users, pc, req, resp, user, trace>>

strVars == <<input, out>>

-----------------------------------------------------------------------------
(* Characters and string helpers (str::starts_with, ends_with, contains).  *)

Dash == 45

Dot == 46

Slash == 47

LowerA == 97

LowerZ == 122

\* the longest string handed to the validating constructors
MaxLen == 4

\* characters the inputs are built from: - . / a z and '{' (just above 'z')
InputChars == {Dash, Dot, Slash, LowerA, LowerZ, 123}

RECURSIVE StrsOfLen(_, _)
StrsOfLen(chars, n) ==
    IF n = 0 THEN {<<>>}
    ELSE {Append(s, c) : s \in StrsOfLen(chars, n - 1), c \in chars}

StrsUpTo(chars, n) == UNION {StrsOfLen(chars, k) : k \in 0..n}

Inputs == StrsUpTo(InputChars, MaxLen)

starts_with(s, p) == Len(s) >= Len(p) /\ SubSeq(s, 1, Len(p)) = p

ends_with(s, p) ==
    Len(s) >= Len(p) /\ SubSeq(s, Len(s) - Len(p) + 1, Len(s)) = p

contains(s, p) ==
    \E i \in 1..(Len(s) - Len(p) + 1) : SubSeq(s, i, i + Len(p) - 1) = p

\* "../", "/.." and "/../"
DotDotSlash == <<Dot, Dot, Slash>>

SlashDotDot == <<Slash, Dot, Dot>>

SlashDotDotSlash == <<Slash, Dot, Dot, Slash>>

Ok(v) == [ok |-> TRUE, value |-> v, pos |-> 0, invalid_char |-> 0]

\* DirectoryTraversalError
TraversalErr(v) == [ok |-> FALSE, value |-> v, pos |-> 0, invalid_char |-> 0]

\* InvalidAppName { name, pos, invalid_char }; pos counts from 0 as enumerate()
InvalidAppName(v, p, c) ==
    [ok |-> FALSE, value |-> v, pos |-> p, invalid_char |-> c]

-----------------------------------------------------------------------------
(* AppName and SafeResourcePath                                            *)

\* IsForbiddenChar with `c <= 'a'` for `c < 'a'`
IsForbiddenChar_offByOne(c) == c # Dash /\ (c <= LowerA \/ c > LowerZ)

\* the predicate of the find() closure
IsForbiddenChar(c) == c # Dash /\ (c < LowerA \/ c > LowerZ)

\* impl TryFrom<String> for AppName<String>
AppName_try_from(value) ==
    LET bad == {i \in 1..Len(value) : IsForbiddenChar(value[i])}
    IN  IF bad # {}
        THEN LET first == CHOOSE i \in bad : \A j \in bad : i <= j
             IN  InvalidAppName(value, first - 1, value[first])
        ELSE Ok(value)

\* impl TryFrom<String> for SafeResourcePath<String>
SafeResourcePath_try_from_String(value) ==
    IF \/ starts_with(value, DotDotSlash)
       \/ ends_with(value, SlashDotDot)
       \/ contains(value, SlashDotDotSlash)
    THEN TraversalErr(value)
    ELSE Ok(value)

\* impl<'a> TryFrom<&'a str> for SafeResourcePath<&'a str>
SafeResourcePath_try_from_str(value) ==
    IF \/ starts_with(value, DotDotSlash)
       \/ ends_with(value, SlashDotDot)
       \/ contains(value, SlashDotDotSlash)
    THEN TraversalErr(value)
    ELSE Ok(value)

\* impl From<AppName<S>> for SafeResourcePath<S>: into_inner
SafeResourcePath_from_AppName(name) == name

\* SafeResourcePath::from_literal
from_literal(value) == value

\* SafeResourcePath::prefix: format!("{}/{}", prefix, self.0)
prefix(path, root) == root \o <<Slash>> \o path

\* const STATIC_DIR: "/usr/share/selfhost-dashboard/static"
STATIC_DIR ==
    <<47, 117, 115, 114, 47, 115, 104, 97, 114, 101, 47, 115, 101, 108, 102,
      104, 111, 115, 116, 45, 100, 97, 115, 104, 98, 111, 97, 114, 100, 47,
      115, 116, 97, 116, 105, 99>>

\* crate::apps::config::DIRS.app_icons ("/icons" stands for the configured root)
APP_ICONS_DIR == <<47, 105, 99, 111, 110, 115>>

\* crate::apps::config::DIRS.app_entry_points ("/apps" stands for the root)
APP_ENTRY_POINTS_DIR == <<47, 97, 112, 112, 115>>

\* the roots the code prefixes a validated path with
TrustedRoots == {STATIC_DIR, APP_ICONS_DIR}

-----------------------------------------------------------------------------
(* The validating constructors applied to every input up to MaxLen.        *)

NoOut == [op |-> "none", r |-> Ok(<<>>), root |-> <<>>]

InitInputs == input \in Inputs /\ out = NoOut

\* SafeResourcePath::try_from(remaining.to_owned()), as "/static" calls it
TryFromString ==
    /\ out' = [op |-> "path_String",
               r |-> SafeResourcePath_try_from_String(input), root |-> <<>>]
    /\ UNCHANGED <<input, reqVars>>

\* SafeResourcePath::try_from(remaining), as "/icons" calls it
TryFromStr ==
    /\ out' = [op |-> "path_str",
               r |-> SafeResourcePath_try_from_str(input), root |-> <<>>]
    /\ UNCHANGED <<input, reqVars>>

\* AppName::try_from(remaining.to_owned()), as "/open_app" calls it
AppNameTryFrom ==
    /\ out' = [op |-> "app_name", r |-> AppName_try_from(input), root |-> <<>>]
    /\ UNCHANGED <<input, reqVars>>

\* a constructed SafeResourcePath (validated, or converted from an AppName)
\* prefixed with a trusted root
PrefixPath ==
    /\ out.op \in {"path_String", "path_str", "app_name"}
    /\ out.r.ok
    /\ \E rt \in TrustedRoots :
          out' = [op |-> "prefix",
                  r |-> Ok(prefix(IF out.op = "app_name"
                                  THEN SafeResourcePath_from_AppName(out.r.value)
                                  ELSE out.r.value, rt)),
                  root |-> rt]
    /\ UNCHANGED <<input, reqVars>>

NextStr == TryFromString \/ TryFromStr \/ AppNameTryFrom \/ PrefixPath

-----------------------------------------------------------------------------
(* Responses (crate::webserver::ResponseBuilder) and the error taxonomy.   *)

\* the configured mount prefix
MountPrefix == "/dashboard"

\* Max-Age of the cookies a login sets
LOGIN_MAX_AGE == 31536000

\* Max-Age of the cookies a logout sets
LOGOUT_MAX_AGE == 0

NoResp ==
    [status |-> 0, body |-> "", location |-> "", content_type |-> "",
     cookies |-> <<>>]

with_status(s) == [NoResp EXCEPT !.status = s]

\* RedirectKind::SeeOther is 303 See Other, RedirectKind::Temporary is 307
RedirectStatus(kind) == IF kind = "SeeOther" THEN 303 ELSE 307

redirect(location, kind) ==
    [NoResp EXCEPT !.status = RedirectStatus(kind), !.location = location]

set_body(b, body) == [b EXCEPT !.body = body]

set_content_type(b, ct) == [b EXCEPT !.content_type = ct]

set_cookie(b, name, value, max_age) ==
    [b EXCEPT !.cookies =
        Append(@, [name |-> name, value |-> value, max_age |-> max_age])]

\* enum Error
Err(kind, message) == [kind |-> kind, message |-> message]

NoErr == Err("none", "")

\* a handler's Result<S::ResponseBuilder, Error>
Succeed(r) == [ok |-> TRUE, resp |-> r, err |-> NoErr]

Fail(e) == [ok |-> FALSE, resp |-> NoResp, err |-> e]

\* impl From<DirectoryTraversalError> for Error
From_DirectoryTraversalError ==
    Err("InvalidData", "directory traversal is not allowed")

\* api_auth with the view policy's arm for NoUserRegistered
api_auth_viewArm(error) ==
    CASE error = "MissingCookies" -> Err("NotAuthorized", "")
      [] error = "BadCookies" -> Err("NotAuthorized", "")
      [] error = "NoUserRegistered" -> Err("RedirectToRegistration", "")
      [] error = "InternalError" -> Err("InternalServerError", "")
      [] error = "InvalidUserName" -> Err("InvalidData", "invalid user name")

\* fn api_auth
api_auth(error) ==
    CASE error = "MissingCookies" -> Err("NotAuthorized", "")
      [] error = "BadCookies" -> Err("NotAuthorized", "")
      [] error = "NoUserRegistered" -> Err("NotAuthorized", "")
      [] error = "InternalError" -> Err("InternalServerError", "")
      [] error = "InvalidUserName" -> Err("InvalidData", "invalid user name")

\* view_auth with the API policy's arm for InvalidUserName
view_auth_apiArm(error) ==
    CASE error = "MissingCookies" -> Err("RedirectToLogin", "")
      [] error = "BadCookies" -> Err("RedirectToLogin", "")
      [] error = "NoUserRegistered" -> Err("RedirectToRegistration", "")
      [] error = "InternalError" -> Err("InternalServerError", "")
      [] error = "InvalidUserName" -> Err("InvalidData", "invalid user name")

\* fn view_auth
view_auth(error) ==
    CASE error = "MissingCookies" -> Err("RedirectToLogin", "")
      [] error = "BadCookies" -> Err("RedirectToLogin", "")
      [] error = "NoUserRegistered" -> Err("RedirectToRegistration", "")
      [] error = "InternalError" -> Err("InternalServerError", "")
      [] error = "InvalidUserName" -> Err("RedirectToLogin", "")

\* Error::response
Error_response(e, mount) ==
    CASE e.kind = "NotAuthorized" ->
            set_body(with_status(401), "Not authorized")
      [] e.kind = "Forbidden" ->
            set_body(with_status(403), "Forbidden: " \o e.message)
      [] e.kind = "InvalidData" ->
            set_body(with_status(400), "Invalid request: " \o e.message)
      [] e.kind = "NotFound" ->
            set_body(with_status(404), "Not found")
      [] e.kind = "InternalServerError" ->
            set_body(with_status(500), "Internal server error")
      [] e.kind = "RedirectToLogin" ->
            redirect(mount \o "/login", "SeeOther")
      [] e.kind = "RedirectToRegistration" ->
            redirect(mount \o "/login#uninitialized=true", "SeeOther")

\* internal_server_error with the failure in its body
internal_server_error_withDetail ==
    set_body(with_status(500), "Internal server error: failed to read file")

\* fn internal_server_error
internal_server_error == set_body(with_status(500), "Internal server error")

\* fn not_found
not_found ==
    set_content_type(set_body(with_status(404), "Error: Page not found"),
                     "text/html")

\* fn route: a handler's error goes through Error::response
route(result) ==
    IF result.ok THEN result.resp ELSE Error_response(result.err, MountPrefix)

-----------------------------------------------------------------------------
(* The user store (crate::user::Db behind crate::login) and the registry.  *)

ValidNames == {"admin", "adminx", "bob"}

\* user names a client can submit; "b@d" is outside the name alphabet
SubmittedNames == ValidNames \cup {"b@d"}

Passwords == {"p1", "p2"}

\* session tokens the store can issue
Tokens == {"c1", "c2"}

NoAccount == [exists |-> FALSE, password |-> "", token |-> ""]

Account(password, token) ==
    [exists |-> TRUE, password |-> password, token |-> token]

\* user::Name::try_from
Name_try_from(name) == name \in ValidNames

\* crate::login::check_login: the outcomes the store can report
check_login(us, name, password) ==
    {[res |-> "DbGetUserError", cookie |-> "", users |-> us]}
    \cup
    (IF us[name].exists /\ us[name].password = password
     THEN {[res |-> "Ok", cookie |-> c,
            users |-> [us EXCEPT ![name].token = c]] : c \in Tokens}
          \cup {[res |-> "DbSetCookieError", cookie |-> "", users |-> us]}
     ELSE {[res |-> "BadUserPassword", cookie |-> "", users |-> us]})

\* crate::login::signup: the outcomes the store can report
signup(us, name, password) ==
    {[res |-> "DatabaseError", cookie |-> "", users |-> us]}
    \cup
    (IF us[name].exists
     THEN {[res |-> "UserExists", cookie |-> "", users |-> us]}
     ELSE {[res |-> "Ok", cookie |-> c,
            users |-> [us EXCEPT ![name] = Account(password, c)]]
             : c \in Tokens})

NoCookies == [present |-> FALSE, user_name |-> "", auth_token |-> ""]

\* the cookies a client can present
Cookies ==
    {NoCookies}
    \cup {[present |-> TRUE, user_name |-> n, auth_token |-> c]
            : n \in {"admin", "bob", "b@d"}, c \in Tokens}

NoAuth == [name |-> ""]

\* the failures crate::login::auth_request can report for these cookies;
\* where the order of its checks is not fixed by its interface, every
\* failure whose condition holds is possible
auth_errors(us, ck) ==
    (IF ~ck.present THEN {"MissingCookies"} ELSE {})
    \cup (IF ck.present /\ ~Name_try_from(ck.user_name)
          THEN {"InvalidUserName"} ELSE {})
    \cup (IF \A n \in ValidNames : ~us[n].exists
          THEN {"NoUserRegistered"} ELSE {})
    \cup (IF ck.present /\ Name_try_from(ck.user_name)
             /\ ~us[ck.user_name].exists
          THEN {"NoUserRegistered", "BadCookies"} ELSE {})
    \cup (IF ck.present /\ Name_try_from(ck.user_name)
             /\ us[ck.user_name].exists
             /\ us[ck.user_name].token # ck.auth_token
          THEN {"BadCookies"} ELSE {})

\* crate::login::auth_request: Ok(user::Authenticated) or a RequestError
auth_request(us, ck) ==
    {[ok |-> FALSE, err |-> "InternalError", user |-> NoAuth]}
    \cup
    (IF auth_errors(us, ck) = {}
     THEN {[ok |-> TRUE, err |-> "", user |-> [name |-> ck.user_name]]}
     ELSE {[ok |-> FALSE, err |-> e, user |-> NoAuth]
             : e \in auth_errors(us, ck)})

\* user::Authenticated::is_admin
is_admin(u) == u.name = "admin"

\* user::Authenticated::logout: the outcomes the store can report
logout(us, u) ==
    {[res |-> "DatabaseError", users |-> us],
     [res |-> "Ok", users |-> [us EXCEPT ![u.name].token = ""]]}

NoApp == [found |-> FALSE, admin_only |-> FALSE, entry_point |-> "", url |-> ""]

App(admin_only, entry_point, url) ==
    [found |-> TRUE, admin_only |-> admin_only, entry_point |-> entry_point,
     url |-> url]

\* the application registry: "a" and "aa" are static, "z" and "a-z" dynamic,
\* "aa" and "a-z" admin_only
apps_get(name) ==
    CASE name = <<LowerA>> -> App(FALSE, "Static", "https://a/")
      [] name = <<LowerA, LowerA>> -> App(TRUE, "Static", "https://aa/")
      [] name = <<LowerZ>> -> App(FALSE, "Dynamic", "")
      [] name = <<LowerA, Dash, LowerZ>> -> App(TRUE, "Dynamic", "")
      [] OTHER -> NoApp

\* crate::apps::get_apps
get_apps(u, mount) == set_body(with_status(200), "apps")

-----------------------------------------------------------------------------
(* The environment of one request: subprocesses and the filesystem.        *)

\* a subprocess's output is a sequence of chunks, "\n" a chunk of its own
RECURSIVE Join(_)
Join(chunks) ==
    IF chunks = <<>> THEN "" ELSE Head(chunks) \o Join(Tail(chunks))

\* String::retain(|c| c != '\n')
RECURSIVE retain_not_newline(_)
retain_not_newline(chunks) ==
    IF chunks = <<>> THEN <<>>
    ELSE IF Head(chunks) = "\n" THEN retain_not_newline(Tail(chunks))
    ELSE <<Head(chunks)>> \o retain_not_newline(Tail(chunks))

Proc(spawned, has_code, code, stdout_utf8, stderr_utf8, stdout) ==
    [spawned |-> spawned, has_code |-> has_code, code |-> code,
     stdout_utf8 |-> stdout_utf8, stderr_utf8 |-> stderr_utf8,
     stdout |-> stdout]

NoProc == Proc(FALSE, FALSE, 0, FALSE, FALSE, <<>>)

\* what the entry point can print
Stdouts == {<<"https://x/">>, <<"https://x/", "\n">>}

\* how a run of <entry_points>/<app>/open can end: not spawned, exit 0, 1, 2,
\* or killed by a signal (no exit code)
ProcOutcomes ==
    {NoProc}
    \cup {Proc(TRUE, TRUE, 0, TRUE, e, o) : e \in BOOLEAN, o \in Stdouts}
    \cup {Proc(TRUE, TRUE, 0, FALSE, e, <<>>) : e \in BOOLEAN}
    \cup {Proc(TRUE, TRUE, c, TRUE, e, <<>>) : c \in {1, 2}, e \in BOOLEAN}
    \cup {Proc(TRUE, FALSE, 0, TRUE, e, <<>>) : e \in BOOLEAN}

\* ExitStatus::success
success(po) == po.has_code /\ po.code = 0

Fs(exists, sniff, read_ok) ==
    [exists |-> exists, sniff |-> sniff, read_ok |-> read_ok]

\* the file is missing
NoFs == Fs(FALSE, NoProc, FALSE)

\* what the filesystem and `file -i` can answer for one path: the file is
\* missing; or it exists and `file -i` is not spawned, exits 1, prints bytes
\* that are not UTF-8 or prints a content type, and the read fails or succeeds
FsOutcomes ==
    {NoFs}
    \cup {Fs(TRUE, s, r) :
            s \in {NoProc,
                   Proc(TRUE, TRUE, 1, TRUE, TRUE, <<>>),
                   Proc(TRUE, TRUE, 0, FALSE, TRUE, <<>>),
                   Proc(TRUE, TRUE, 0, TRUE, TRUE, <<"text/plain", "\n">>)},
            r \in BOOLEAN}

\* one external call of a request: a store operation (with the store before
\* and after it), a subprocess or a filesystem access
Event(op, res, path, args, before, after, proc) ==
    [op |-> op, res |-> res, path |-> path, args |-> args,
     before |-> before, after |-> after, proc |-> proc]

StoreEvent(op, res, before, after) ==
    Event(op, res, <<>>, <<>>, before, after, NoProc)

ProcEvent(op, res, path, args, proc) ==
    Event(op, res, path, args, <<>>, <<>>, proc)

FsEvent(op, res, path) == Event(op, res, path, <<>>, <<>>, <<>>, NoProc)

\* what a handler did: its result, its external calls, the user it saw
H(result, tr, u) == [result |-> result, trace |-> tr, user |-> u]

\* the handler made a call of one of these kinds
Calls(h, ops) == \E i \in 1..Len(h.trace) : h.trace[i].op \in ops

\* the answers of the filesystem a handler can get: those of FsOutcomes when
\* it touches the filesystem (h0 is the handler on a missing file)
FsFor(h0) == IF Calls(h0, {"exists"}) THEN FsOutcomes ELSE {NoFs}

\* the ends of the entry point a handler can see: those of ProcOutcomes when
\* it runs the entry point (h0 is the handler on a failed spawn)
ProcFor(h0) == IF Calls(h0, {"open"}) THEN ProcOutcomes ELSE {NoProc}

-----------------------------------------------------------------------------
(* Static assets                                                           *)

LastIndexOf(s, c) ==
    LET at == {i \in 1..Len(s) : s[i] = c}
    IN  IF at = {} THEN 0 ELSE CHOOSE i \in at : \A j \in at : j <= i

\* Path::extension, for paths without a trailing '/' or a "." component:
\* the part of the file name after its last '.', if that '.' is not its first
\* character and the file name is not ".."
extension(path) ==
    LET f == SubSeq(path, LastIndexOf(path, Slash) + 1, Len(path))
        d == LastIndexOf(f, Dot)
    IN  IF f = <<Dot, Dot>> \/ d <= 1
        THEN [some |-> FALSE, ext |-> <<>>]
        ELSE [some |-> TRUE, ext |-> SubSeq(f, d + 1, Len(f))]

\* fn scan_content_type
scan_content_type(path, sniff) ==
    LET e == extension(path)
    IN  IF e.some /\ e.ext = <<104, 116, 109, 108>>
          THEN H(Succeed("text/html"), <<>>, NoAuth)
        ELSE IF e.some /\ e.ext = <<99, 115, 115>>
          THEN H(Succeed("text/css"), <<>>, NoAuth)
        ELSE IF e.some /\ e.ext = <<106, 115>>
          THEN H(Succeed("text/javascript"), <<>>, NoAuth)
        ELSE IF e.some /\ e.ext = <<112, 110, 103>>
          THEN H(Succeed("image/png"), <<>>, NoAuth)
        ELSE IF e.some /\ e.ext = <<115, 118, 103>>
          THEN H(Succeed("image/svg+xml"), <<>>, NoAuth)
        ELSE IF ~sniff.spawned
          THEN H(Fail(NoErr), <<ProcEvent("file", "spawn failed", path,
                                          <<"-i">>, sniff)>>, NoAuth)
        ELSE IF ~success(sniff)
          THEN H(Fail(NoErr), <<ProcEvent("file", "failed", path,
                                          <<"-i">>, sniff)>>, NoAuth)
        ELSE IF ~sniff.stdout_utf8
          THEN H(Fail(NoErr), <<ProcEvent("file", "not utf8", path,
                                          <<"-i">>, sniff)>>, NoAuth)
        ELSE H(Succeed(Join(retain_not_newline(sniff.stdout))),
               <<ProcEvent("file", "ok", path, <<"-i">>, sniff)>>, NoAuth)

\* serve_static_abs answering 500 for a missing file
serve_static_abs_missingIs500(abs_path, content_type, fs) ==
    IF ~fs.exists
    THEN H(Succeed(internal_server_error),
           <<FsEvent("exists", "no", abs_path)>>, NoAuth)
    ELSE
      LET ex == <<FsEvent("exists", "yes", abs_path)>>
          ct == IF content_type # ""
                THEN H(Succeed(content_type), <<>>, NoAuth)
                ELSE scan_content_type(abs_path, fs.sniff)
      IN  IF ~ct.result.ok
          THEN H(Succeed(internal_server_error), ex \o ct.trace, NoAuth)
          ELSE IF ~fs.read_ok
          THEN H(Succeed(internal_server_error),
                 ex \o ct.trace \o <<FsEvent("read", "failed", abs_path)>>,
                 NoAuth)
          ELSE H(Succeed(set_content_type(
                            set_body(with_status(200), "file contents"),
                            ct.result.resp)),
                 ex \o ct.trace \o <<FsEvent("read", "ok", abs_path)>>,
                 NoAuth)

\* fn serve_static_abs; content_type is "" for None
serve_static_abs(abs_path, content_type, fs) ==
    IF ~fs.exists
    THEN H(Succeed(not_found), <<FsEvent("exists", "no", abs_path)>>, NoAuth)
    ELSE
      LET ex == <<FsEvent("exists", "yes", abs_path)>>
          ct == IF content_type # ""
                THEN H(Succeed(content_type), <<>>, NoAuth)
                ELSE scan_content_type(abs_path, fs.sniff)
      IN  IF ~ct.result.ok
          THEN H(Succeed(internal_server_error), ex \o ct.trace, NoAuth)
          ELSE IF ~fs.read_ok
          THEN H(Succeed(internal_server_error),
                 ex \o ct.trace \o <<FsEvent("read", "failed", abs_path)>>,
                 NoAuth)
          ELSE H(Succeed(set_content_type(
                            set_body(with_status(200), "file contents"),
                            ct.result.resp)),
                 ex \o ct.trace \o <<FsEvent("read", "ok", abs_path)>>,
                 NoAuth)

\* fn serve_static
serve_static(resource, content_type, fs) ==
    serve_static_abs(prefix(resource, STATIC_DIR), content_type, fs)

-----------------------------------------------------------------------------
(* The application launch authorizer                                       *)

\* format!("{}/{}/open", DIRS.app_entry_points, app_name)
entry_point_path(app_name) ==
    APP_ENTRY_POINTS_DIR \o <<Slash>> \o app_name
        \o <<Slash, 111, 112, 101, 110>>

\* is_internal with the (None, _) arms taken for a rejection
is_internal_signalRejects(po) == po.has_code /\ po.code # 1

\* the match on (output.status.code(), String::from_utf8(output.stderr))
is_internal(po) == ~(po.has_code /\ po.code = 1)

\* fn open_dynamic: the URL, or the Error
open_dynamic(app_name, u, po) ==
    LET ev(res) == <<ProcEvent("open", res, entry_point_path(app_name),
                               <<u.name>>, po)>>
    IN  IF ~po.spawned
          THEN H(Fail(Err("InternalServerError", "")), ev("spawn failed"), u)
        ELSE IF ~success(po)
          THEN IF is_internal(po)
               THEN H(Fail(Err("InternalServerError", "")), ev("failed"), u)
               ELSE H(Fail(Err("Forbidden",
                        "You are not allowed to access this application")),
                      ev("rejected"), u)
        ELSE IF ~po.stdout_utf8
          THEN H(Fail(Err("InternalServerError", "")), ev("not utf8"), u)
        ELSE H(Succeed(Join(po.stdout)), ev("ok"), u)

\* the admin_only check without its negation
admin_only_denied_noNegation(app, u) == app.admin_only /\ is_admin(u)

\* if app.admin_only && !user.is_admin()
admin_only_denied(app, u) == app.admin_only /\ ~is_admin(u)

AuthEvent(us, ao) ==
    StoreEvent("auth_request", IF ao.ok THEN "Ok" ELSE ao.err, us, us)

\* open_app looking the application up before it authenticates
open_app_lookupFirst(us, remaining, ck, ao, po) ==
    LET app_name == AppName_try_from(remaining)
        app == apps_get(app_name.value)
        auth == <<AuthEvent(us, ao)>>
        lookup == <<FsEvent("apps.get", IF app.found THEN "some" ELSE "none",
                            app_name.value)>>
        dyn == open_dynamic(app_name.value, ao.user, po)
    IN  IF ~app_name.ok
          THEN H(Fail(Err("InvalidData", "invalid application name")),
                 <<>>, NoAuth)
        ELSE IF ~app.found
          THEN H(Fail(Err("NotFound", "")), lookup, NoAuth)
        ELSE IF ~ao.ok
          THEN H(Fail(view_auth(ao.err)), lookup \o auth, NoAuth)
        ELSE IF admin_only_denied(app, ao.user)
          THEN H(Fail(Err("Forbidden",
                   "Non-admins are not authorized to open admin-only apps")),
                 lookup \o auth, ao.user)
        ELSE IF app.entry_point = "Static"
          THEN H(Succeed(redirect(app.url, "Temporary")),
                 lookup \o auth, ao.user)
        ELSE IF ~dyn.result.ok
          THEN H(Fail(dyn.result.err), lookup \o auth \o dyn.trace, ao.user)
        ELSE H(Succeed(redirect(dyn.result.resp, "Temporary")),
               lookup \o auth \o dyn.trace, ao.user)

\* route_raw ("/open_app", Get)
open_app(us, remaining, ck, ao, po) ==
    LET app_name == AppName_try_from(remaining)
        app == apps_get(app_name.value)
        auth == <<AuthEvent(us, ao)>>
        lookup == <<FsEvent("apps.get", IF app.found THEN "some" ELSE "none",
                            app_name.value)>>
        dyn == open_dynamic(app_name.value, ao.user, po)
    IN  IF ~app_name.ok
          THEN H(Fail(Err("InvalidData", "invalid application name")),
                 <<>>, NoAuth)
        ELSE IF ~ao.ok
          THEN H(Fail(view_auth(ao.err)), auth, NoAuth)
        ELSE IF ~app.found
          THEN H(Fail(Err("NotFound", "")), auth \o lookup, ao.user)
        ELSE IF admin_only_denied(app, ao.user)
          THEN H(Fail(Err("Forbidden",
                   "Non-admins are not authorized to open admin-only apps")),
                 auth \o lookup, ao.user)
        ELSE IF app.entry_point = "Static"
          THEN H(Succeed(redirect(app.url, "Temporary")),
                 auth \o lookup, ao.user)
        ELSE IF ~dyn.result.ok
          THEN H(Fail(dyn.result.err), auth \o lookup \o dyn.trace, ao.user)
        ELSE H(Succeed(redirect(dyn.result.resp, "Temporary")),
               auth \o lookup \o dyn.trace, ao.user)

\* index reading the page before it authenticates
index_serveBeforeAuth(us, ck, ao, fs) ==
    LET page == serve_static(from_literal(
                    <<105, 110, 100, 101, 120, 46, 104, 116, 109, 108>>),
                    "text/html", fs)
    IN  IF ~ao.ok
        THEN H(Fail(view_auth(ao.err)), page.trace \o <<AuthEvent(us, ao)>>,
               NoAuth)
        ELSE H(page.result, page.trace \o <<AuthEvent(us, ao)>>, ao.user)

\* route_raw ("" | "/", Get)
index(us, ck, ao, fs) ==
    LET page == serve_static(from_literal(
                    <<105, 110, 100, 101, 120, 46, 104, 116, 109, 108>>),
                    "text/html", fs)
    IN  IF ~ao.ok
        THEN H(Fail(view_auth(ao.err)), <<AuthEvent(us, ao)>>, NoAuth)
        ELSE H(page.result, <<AuthEvent(us, ao)>> \o page.trace, ao.user)

\* apps_list answering with the list whatever authentication said
apps_list_noGate(us, ck, ao) ==
    H(Succeed(get_apps(ao.user, MountPrefix)), <<AuthEvent(us, ao)>>, ao.user)

\* route_raw ("/apps", Get)
apps_list(us, ck, ao) ==
    IF ~ao.ok
    THEN H(Fail(api_auth(ao.err)), <<AuthEvent(us, ao)>>, NoAuth)
    ELSE H(Succeed(get_apps(ao.user, MountPrefix)), <<AuthEvent(us, ao)>>,
           ao.user)

\* route_raw ("/static", Get)
static(remaining, fs) ==
    LET path == SafeResourcePath_try_from_String(remaining)
    IN  IF ~path.ok
        THEN H(Fail(From_DirectoryTraversalError), <<>>, NoAuth)
        ELSE serve_static(path.value, "", fs)

\* route_raw ("/icons", Get)
icons(remaining, fs) ==
    LET icon_path == SafeResourcePath_try_from_str(remaining)
    IN  IF ~icon_path.ok
        THEN H(Fail(From_DirectoryTraversalError), <<>>, NoAuth)
        ELSE serve_static_abs(prefix(icon_path.value, APP_ICONS_DIR), "", fs)

\* route_raw ("/login", Get)
login_page(fs) ==
    serve_static(from_literal(
        <<108, 111, 103, 105, 110, 46, 104, 116, 109, 108>>), "text/html", fs)

-----------------------------------------------------------------------------
(* The login/signup state machine                                          *)

\* request.post_form_arg: Err (malformed), Ok(None) (missing) or Ok(Some(v))
Field(st, v) == [st |-> st, v |-> v]

NoField == Field("missing", "")

Fields(values) ==
    {NoField, Field("malformed", "")} \cup {Field("ok", v) : v \in values}

Forms == [username : Fields(SubmittedNames), password : Fields(Passwords)]

NoForm == [username |-> NoField, password |-> NoField]

\* login_form validating the name before it looks at the password field
login_form_validateFirst(form) ==
    IF form.username.st # "ok" THEN Fail(Err("RedirectToLogin", ""))
    ELSE IF ~Name_try_from(form.username.v)
      THEN Fail(Err("InvalidData", "user name contains invalid character"))
    ELSE IF form.password.st # "ok" THEN Fail(Err("RedirectToLogin", ""))
    ELSE Succeed(NoResp)

\* route_raw ("/login", Post), up to the credential check: the early return,
\* or the LoginRequest
login_form(form) ==
    IF form.username.st # "ok" THEN Fail(Err("RedirectToLogin", ""))
    ELSE IF form.password.st # "ok" THEN Fail(Err("RedirectToLogin", ""))
    ELSE IF ~Name_try_from(form.username.v)
      THEN Fail(Err("InvalidData", "user name contains invalid character"))
    ELSE Succeed(NoResp)

\* login_success without the user_name cookie
login_success_tokenOnly(name, cookie) ==
    set_cookie(redirect(MountPrefix, "SeeOther"),
               "auth_token", cookie, LOGIN_MAX_AGE)

\* the response of a successful login or signup
login_success(name, cookie) ==
    set_cookie(set_cookie(redirect(MountPrefix, "SeeOther"),
                          "user_name", name, LOGIN_MAX_AGE),
               "auth_token", cookie, LOGIN_MAX_AGE)

\* the bootstrap test as a prefix test
is_bootstrap_name_prefix(name) == name \in {"admin", "adminx"}

\* if &*name == "admin"
is_bootstrap_name(name) == name = "admin"

\* login_match answering 500 for the store's errors
login_match_dbErrorIs500(name, o) ==
    CASE o.res = "Ok" ->
            [next |-> "done", result |-> Succeed(login_success(name, o.cookie))]
      [] o.res = "BadUserPassword" ->
            IF is_bootstrap_name(name)
            THEN [next |-> "signup", result |-> Succeed(NoResp)]
            ELSE [next |-> "done", result |-> Fail(Err("RedirectToLogin", ""))]
      [] o.res = "DbGetUserError" ->
            [next |-> "done", result |-> Fail(Err("InternalServerError", ""))]
      [] o.res = "DbSetCookieError" ->
            [next |-> "done", result |-> Fail(Err("InternalServerError", ""))]

\* the match on check_login's result: the response, or on to signup
login_match(name, o) ==
    CASE o.res = "Ok" ->
            [next |-> "done", result |-> Succeed(login_success(name, o.cookie))]
      [] o.res = "BadUserPassword" ->
            IF is_bootstrap_name(name)
            THEN [next |-> "signup", result |-> Succeed(NoResp)]
            ELSE [next |-> "done", result |-> Fail(Err("RedirectToLogin", ""))]
      [] o.res = "DbGetUserError" ->
            [next |-> "done", result |-> Fail(Err("RedirectToLogin", ""))]
      [] o.res = "DbSetCookieError" ->
            [next |-> "done", result |-> Fail(Err("RedirectToLogin", ""))]

\* signup_match with UserExists taken for a success
signup_match_userExistsOk(name, o) ==
    CASE o.res = "Ok" -> Succeed(login_success(name, o.cookie))
      [] o.res = "UserExists" -> Succeed(login_success(name, o.cookie))
      [] o.res = "DatabaseError" -> Fail(Err("InternalServerError", ""))

\* the match on signup's result
signup_match(name, o) ==
    CASE o.res = "Ok" -> Succeed(login_success(name, o.cookie))
      [] o.res = "UserExists" -> Fail(Err("RedirectToLogin", ""))
      [] o.res = "DatabaseError" -> Fail(Err("InternalServerError", ""))

\* logout_success clearing the auth_token cookie only
logout_success_tokenOnly ==
    set_cookie(redirect(MountPrefix \o "/login", "SeeOther"),
               "auth_token", "", LOGOUT_MAX_AGE)

\* the response of a successful logout
logout_success ==
    set_cookie(set_cookie(redirect(MountPrefix \o "/login", "SeeOther"),
                          "user_name", "", LOGOUT_MAX_AGE),
               "auth_token", "", LOGOUT_MAX_AGE)

\* logout_match that ignores the store's error
logout_match_ignoreError(o) == Succeed(logout_success)

\* the match on user.logout's result
logout_match(o) ==
    IF o.res = "Ok" THEN Succeed(logout_success)
    ELSE Fail(Err("InternalServerError", ""))

-----------------------------------------------------------------------------
(* The request tasks: one action per route, one step per store operation   *)
(* that the handler awaits after its first.                                *)

Tasks == {"t1", "t2"}

Req(component, method, remaining, cookies, form) ==
    [component |-> component, method |-> method, remaining |-> remaining,
     cookies |-> cookies, form |-> form]

NoReq == Req("none", "Get", <<>>, NoCookies, NoForm)

EmptyStore == [n \in ValidNames |-> NoAccount]

\* the store when the server starts: no admin account yet; "bob" stands for an
\* ordinary account registered before
InitReq ==
    /\ users \in {EmptyStore, [EmptyStore EXCEPT !["bob"] = Account("p1", "")]}
    /\ pc = [t \in Tasks |-> "idle"]
    /\ req = [t \in Tasks |-> NoReq]
    /\ resp = [t \in Tasks |-> NoResp]
    /\ user = [t \in Tasks |-> NoAuth]
    /\ trace = [t \in Tasks |-> <<>>]

Init == InitReq /\ input = <<>> /\ out = NoOut

\* the remainders requested under /static and /icons:
\* "", "a", "a.js", "..", "../a", "a/..", "a.."
StaticInputs ==
    {<<>>, <<LowerA>>, <<LowerA, Dot, 106, 115>>, <<Dot, Dot>>,
     <<Dot, Dot, Slash, LowerA>>, <<LowerA, Slash, Dot, Dot>>,
     <<LowerA, Dot, Dot>>}

\* the remainders requested under /open_app: the registered names, an
\* unregistered name "-", the empty name and the invalid name "a/"
OpenAppInputs ==
    {<<LowerA>>, <<LowerA, LowerA>>, <<LowerZ>>, <<LowerA, Dash, LowerZ>>,
     <<Dash>>, <<>>, <<LowerA, Slash>>}

\* (component, method) pairs outside the route table
UnmatchedRoutes ==
    {<<"/apps", "Post">>, <<"/logout", "Post">>, <<"/nope", "Get">>,
     <<"static", "Get">>}

\* the task is free to take a request
Idle(t) == pc[t] = "idle"

\* the handler ran to its response
Finish(t, r, h) ==
    /\ req' = [req EXCEPT ![t] = r]
    /\ pc' = [pc EXCEPT ![t] = "done"]
    /\ resp' = [resp EXCEPT ![t] = route(h.result)]
    /\ trace' = [trace EXCEPT ![t] = h.trace]
    /\ user' = [user EXCEPT ![t] = h.user]

\* the handler awaits its next store operation
Await(t, r, at, tr, u) ==
    /\ req' = [req EXCEPT ![t] = r]
    /\ pc' = [pc EXCEPT ![t] = at]
    /\ resp' = [resp EXCEPT ![t] = NoResp]
    /\ trace' = [trace EXCEPT ![t] = tr]
    /\ user' = [user EXCEPT ![t] = u]

Index(t) ==
    /\ Idle(t)
    /\ \E c \in {"", "/"}, ck \in Cookies :
         \E ao \in auth_request(users, ck) :
            \E fs \in FsFor(index(users, ck, ao, NoFs)) :
               Finish(t, Req(c, "Get", <<>>, ck, NoForm),
                      index(users, ck, ao, fs))
    /\ UNCHANGED <<users, strVars>>

Static(t) ==
    /\ Idle(t)
    /\ \E rem \in StaticInputs :
         \E fs \in FsFor(static(rem, NoFs)) :
            Finish(t, Req("/static", "Get", rem, NoCookies, NoForm),
                   static(rem, fs))
    /\ UNCHANGED <<users, strVars>>

Icons(t) ==
    /\ Idle(t)
    /\ \E rem \in StaticInputs :
         \E fs \in FsFor(icons(rem, NoFs)) :
            Finish(t, Req("/icons", "Get", rem, NoCookies, NoForm),
                   icons(rem, fs))
    /\ UNCHANGED <<users, strVars>>

Apps(t) ==
    /\ Idle(t)
    /\ \E ck \in Cookies :
         \E ao \in auth_request(users, ck) :
            Finish(t, Req("/apps", "Get", <<>>, ck, NoForm),
                   apps_list(users, ck, ao))
    /\ UNCHANGED <<users, strVars>>

LoginGet(t) ==
    /\ Idle(t)
    /\ \E fs \in FsOutcomes :
         Finish(t, Req("/login", "Get", <<>>, NoCookies, NoForm),
                login_page(fs))
    /\ UNCHANGED <<users, strVars>>

\* route_raw ("/login", Post) through the awaited check_login, for a form
\* body out of forms
LoginPostWith(t, forms) ==
    /\ Idle(t)
    /\ \E form \in forms :
         LET r == Req("/login", "Post", <<>>, NoCookies, form)
             early == login_form(form)
             name == form.username.v
         IN  IF ~early.ok
             THEN Finish(t, r, H(early, <<>>, NoAuth)) /\ UNCHANGED users
             ELSE \E o \in check_login(users, name, form.password.v) :
                    LET m == login_match(name, o)
                        tr == <<StoreEvent("check_login", o.res, users,
                                           o.users)>>
                    IN  /\ users' = o.users
                        /\ IF m.next = "signup"
                           THEN Await(t, r, "signup", tr, NoAuth)
                           ELSE Finish(t, r, H(m.result, tr, NoAuth))
    /\ UNCHANGED strVars

LoginPost(t) == LoginPostWith(t, Forms)

\* the awaited crate::login::signup of the admin bootstrap
Signup(t) ==
    /\ pc[t] = "signup"
    /\ \E o \in signup(users, req[t].form.username.v, req[t].form.password.v) :
         /\ users' = o.users
         /\ Finish(t, req[t],
                   H(signup_match(req[t].form.username.v, o),
                     Append(trace[t],
                            StoreEvent("signup", o.res, users, o.users)),
                     NoAuth))
    /\ UNCHANGED strVars

OpenApp(t) ==
    /\ Idle(t)
    /\ \E rem \in OpenAppInputs, ck \in Cookies :
         \E ao \in auth_request(users, ck) :
            \E po \in ProcFor(open_app(users, rem, ck, ao, NoProc)) :
               Finish(t, Req("/open_app", "Get", rem, ck, NoForm),
                      open_app(users, rem, ck, ao, po))
    /\ UNCHANGED <<users, strVars>>

\* route_raw ("/logout", Get) through the awaited auth_request
Logout(t) ==
    /\ Idle(t)
    /\ \E ck \in Cookies :
         \E ao \in auth_request(users, ck) :
            LET r == Req("/logout", "Get", <<>>, ck, NoForm)
            IN  IF ~ao.ok
                THEN Finish(t, r, H(Fail(view_auth(ao.err)),
                                    <<AuthEvent(users, ao)>>, NoAuth))
                ELSE Await(t, r, "logout", <<AuthEvent(users, ao)>>, ao.user)
    /\ UNCHANGED <<users, strVars>>

\* the awaited user.logout and the response after it
LogoutStore(t) ==
    /\ pc[t] = "logout"
    /\ \E o \in logout(users, user[t]) :
         /\ users' = o.users
         /\ Finish(t, req[t],
                   H(logout_match(o),
                     Append(trace[t],
                            StoreEvent("logout", o.res, users, o.users)),
                     user[t]))
    /\ UNCHANGED strVars

\* route_raw, the fallthrough arm
Unmatched(t) ==
    /\ Idle(t)
    /\ \E cm \in UnmatchedRoutes :
         Finish(t, Req(cm[1], cm[2], <<>>, NoCookies, NoForm),
                H(Fail(Err("NotFound", "")), <<>>, NoAuth))
    /\ UNCHANGED <<users, strVars>>

\* the response is handed to the server and the task ends
Return(t) ==
    /\ pc[t] = "done"
    /\ pc' = [pc EXCEPT ![t] = "idle"]
    /\ req' = [req EXCEPT ![t] = NoReq]
    /\ resp' = [resp EXCEPT ![t] = NoResp]
    /\ user' = [user EXCEPT ![t] = NoAuth]
    /\ trace' = [trace EXCEPT ![t] = <<>>]
    /\ UNCHANGED <<users, strVars>>

Handle(t) ==
    \/ Index(t)
    \/ Static(t)
    \/ Icons(t)
    \/ Apps(t)
    \/ LoginGet(t)
    \/ LoginPost(t)
    \/ Signup(t)
    \/ OpenApp(t)
    \/ Logout(t)
    \/ LogoutStore(t)
    \/ Unmatched(t)
    \/ Return(t)

\* requests handled one after another
Next == Handle("t1")

Spec == Init /\ [][Next]_vars

\* the form bodies of logins as `admin`, with either password
AdminForms ==
    [username : {Field("ok", "admin")},
     password : {Field("ok", p) : p \in Passwords}]

\* the server starts without any account
InitRace == users = EmptyStore /\ InitReq /\ input = <<>> /\ out = NoOut

\* a login as `admin` handled by task t
RaceLogin(t) == LoginPostWith(t, AdminForms)

\* the tasks handle logins as `admin` concurrently: their store operations
\* interleave in any order
NextRace == \E t \in Tasks : RaceLogin(t) \/ Signup(t) \/ Return(t)

SpecRace == InitRace /\ [][NextRace]_vars

\* the validating constructors on their own, the request tasks idle
InitStr == InitInputs /\ users = EmptyStore /\ InitReq

SpecStr == InitStr /\ [][NextStr]_vars

-----------------------------------------------------------------------------
(* The dispatcher: the mount prefix, the component split, the route table   *)

\* the configured mount prefix, "/dashboard", as the characters of the path
MountPrefixChars == <<47, 100, 97, 115, 104, 98, 111, 97, 114, 100>>

\* request paths outside the mount prefix: "", "/", "/dashboar", "/static",
\*   "/Dashboard/static", "x/dashboard/static", "/dashboar/static"
ForeignPaths ==
    {<<>>,
     <<47>>,
     <<47, 100, 97, 115, 104, 98, 111, 97, 114>>,
     <<47, 115, 116, 97, 116, 105, 99>>,
     <<47, 68, 97, 115, 104, 98, 111, 97, 114, 100, 47, 115, 116, 97, 116, 105, 99>>,
     <<120, 47, 100, 97, 115, 104, 98, 111, 97, 114, 100, 47, 115, 116, 97, 116, 105, 99>>,
     <<47, 100, 97, 115, 104, 98, 111, 97, 114, 47, 115, 116, 97, 116, 105, 99>>}

\* what follows the mount prefix in the paths under it: "", "/", "//",
\*   "//x", "/static", "/static/", "/static/a", "/static/a/b", "/static//a",
\*   "/statics", "/stati", "/icons", "/icons/a/b", "/apps", "/apps/",
\*   "/apps/x", "/login", "/login/x", "/open_app", "/open_app/a",
\*   "/open_app/a/b", "/logout", "/logout/", "/nope", "/nope/x", "static",
\*   "static/a", "x/static", "x", "/Static", "/a"
MountedSuffixes ==
    {<<>>,
     <<47>>,
     <<47, 47>>,
     <<47, 47, 120>>,
     <<47, 115, 116, 97, 116, 105, 99>>,
     <<47, 115, 116, 97, 116, 105, 99, 47>>,
     <<47, 115, 116, 97, 116, 105, 99, 47, 97>>,
     <<47, 115, 116, 97, 116, 105, 99, 47, 97, 47, 98>>,
     <<47, 115, 116, 97, 116, 105, 99, 47, 47, 97>>,
     <<47, 115, 116, 97, 116, 105, 99, 115>>,
     <<47, 115, 116, 97, 116, 105>>,
     <<47, 105, 99, 111, 110, 115>>,
     <<47, 105, 99, 111, 110, 115, 47, 97, 47, 98>>,
     <<47, 97, 112, 112, 115>>,
     <<47, 97, 112, 112, 115, 47>>,
     <<47, 97, 112, 112, 115, 47, 120>>,
     <<47, 108, 111, 103, 105, 110>>,
     <<47, 108, 111, 103, 105, 110, 47, 120>>,
     <<47, 111, 112, 101, 110, 95, 97, 112, 112>>,
     <<47, 111, 112, 101, 110, 95, 97, 112, 112, 47, 97>>,
     <<47, 111, 112, 101, 110, 95, 97, 112, 112, 47, 97, 47, 98>>,
     <<47, 108, 111, 103, 111, 117, 116>>,
     <<47, 108, 111, 103, 111, 117, 116, 47>>,
     <<47, 110, 111, 112, 101>>,
     <<47, 110, 111, 112, 101, 47, 120>>,
     <<115, 116, 97, 116, 105, 99>>,
     <<115, 116, 97, 116, 105, 99, 47, 97>>,
     <<120, 47, 115, 116, 97, 116, 105, 99>>,
     <<120>>,
     <<47, 83, 116, 97, 116, 105, 99>>,
     <<47, 97>>}

RoutePaths == ForeignPaths \cup {MountPrefixChars \o s : s \in MountedSuffixes}

Methods == {"Get", "Post", "Put"}

\* the components of the route table as the strings the requests carry
ComponentStr(chars) ==
    CASE chars = <<>> -> ""
      [] chars = <<47>> -> "/"
      [] chars = <<47, 115, 116, 97, 116, 105, 99>> -> "/static"
      [] chars = <<47, 105, 99, 111, 110, 115>> -> "/icons"
      [] chars = <<47, 97, 112, 112, 115>> -> "/apps"
      [] chars = <<47, 108, 111, 103, 105, 110>> -> "/login"
      [] chars = <<47, 111, 112, 101, 110, 95, 97, 112, 112>> -> "/open_app"
      [] chars = <<47, 108, 111, 103, 111, 117, 116>> -> "/logout"
      [] OTHER -> "other"

\* str::find: the 0-based index of the first c in s, -1 for None
find(s, c) ==
    LET at == {i \in 1..Len(s) : s[i] = c}
    IN  IF at = {} THEN -1 ELSE (CHOOSE i \in at : \A j \in at : i <= j) - 1

\* the prefix strip: &request.path()[prefix.len()..], or Err(Error::NotFound)
strip_prefix(path, mount) ==
    IF starts_with(path, mount)
    THEN [ok |-> TRUE, path |-> SubSeq(path, Len(mount) + 1, Len(path))]
    ELSE [ok |-> FALSE, path |-> <<>>]

\* split with the '/' searched from the start of the path
split_findFromStart(path) ==
    IF path = <<>> THEN [component |-> <<>>, remaining |-> <<>>]
    ELSE LET idx == find(path, Slash)
         IN  IF idx >= 0
             THEN [component |-> SubSeq(path, 1, idx + 1),
                   remaining |-> SubSeq(path, idx + 3, Len(path))]
             ELSE [component |-> path, remaining |-> <<>>]

\* let (component, remaining) = ...: path[1..].find('/')
split(path) ==
    IF path = <<>> THEN [component |-> <<>>, remaining |-> <<>>]
    ELSE LET idx == find(Tail(path), Slash)
         IN  IF idx >= 0
             THEN [component |-> SubSeq(path, 1, idx + 1),
                   remaining |-> SubSeq(path, idx + 3, Len(path))]
             ELSE [component |-> path, remaining |-> <<>>]

\* match (component, request.method()): the arm taken
route_table(component, method) ==
    CASE component \in {"", "/"} /\ method = "Get" -> "index"
      [] component = "/static" /\ method = "Get" -> "static"
      [] component = "/icons" /\ method = "Get" -> "icons"
      [] component = "/apps" /\ method = "Get" -> "apps"
      [] component = "/login" /\ method = "Get" -> "login_page"
      [] component = "/login" /\ method = "Post" -> "login"
      [] component = "/open_app" /\ method = "Get" -> "open_app"
      [] component = "/logout" /\ method = "Get" -> "logout"
      [] OTHER -> "NotFound"

\* route_raw up to the arm it takes
dispatch(path, method) ==
    LET stripped == strip_prefix(path, MountPrefixChars)
        parts == split(stripped.path)
    IN  IF ~stripped.ok
        THEN [handler |-> "NotFound", component |-> <<>>, remaining |-> <<>>,
              method |-> method]
        ELSE [handler |-> route_table(ComponentStr(parts.component), method),
              component |-> parts.component, remaining |-> parts.remaining,
              method |-> method]

InitRoute == input \in RoutePaths /\ out = NoOut /\ InitReq

\* one request path and method through the dispatcher
Dispatch(m) ==
    /\ out' = [op |-> "route", r |-> dispatch(input, m), root |-> <<>>]
    /\ UNCHANGED <<input, reqVars>>

NextRoute == \E m \in Methods : Dispatch(m)

SpecRoute == InitRoute /\ [][NextRoute]_vars

-----------------------------------------------------------------------------
(* Properties of the validating constructors (under SpecStr)               *)

\* the components of a path: the pieces between its '/' characters
RECURSIVE Segments(_)
Segments(s) ==
    LET at == {i \in 1..Len(s) : s[i] = Slash}
    IN  IF at = {} THEN <<s>>
        ELSE LET k == CHOOSE i \in at : \A j \in at : i <= j
             IN  <<SubSeq(s, 1, k - 1)>> \o Segments(SubSeq(s, k + 1, Len(s)))

HasDotDotSegment(s) ==
    \E i \in 1..Len(Segments(s)) : Segments(s)[i] = <<Dot, Dot>>

PathOps == {"path_String", "path_str"}

\* the strings C5 says are rejected
C5_Rejected(s) ==
    \/ contains(s, DotDotSlash)
    \/ contains(s, SlashDotDotSlash)
    \/ ends_with(s, SlashDotDot)
    \/ s = <<Dot, Dot>>

\* C5: safe path validation rejects every string that contains "../",
\* contains "/../" or ends in "/.." (the string ".." included), accepts every
\* other string and returns it unchanged, and the String and &str
\* constructors agree on every input.
C5_SafePathRejectsTraversal ==
    out.op \in PathOps =>
        /\ out.r.ok = ~C5_Rejected(input)
        /\ out.r.ok => out.r.value = input
        /\ SafeResourcePath_try_from_String(input)
              = SafeResourcePath_try_from_str(input)

\* C6: a path accepted by safe path validation (or converted from a valid
\* AppName), prefixed with a trusted root that has no ".." component, is
\* root + "/" + path and has no ".." component.
C6_PrefixedPathStaysInRoot ==
    out.op = "prefix" =>
        /\ ~HasDotDotSegment(out.root)
        /\ out.r.value = out.root \o <<Slash>> \o input
        /\ ~HasDotDotSegment(out.r.value)

AllowedAppNameChars == {Dash} \cup (LowerA..LowerZ)

\* C7: app-name validation accepts a string iff each of its characters is a
\* lowercase ASCII letter or '-' (the empty string is accepted); a rejection
\* reports the index of the first offending character, and that character.
C7_AppNameValidation ==
    out.op = "app_name" =>
        LET bad == {i \in 1..Len(input) : input[i] \notin AllowedAppNameChars}
        IN  /\ out.r.ok = (bad = {})
            /\ out.r.ok => out.r.value = input
            /\ ~out.r.ok =>
                 /\ out.r.pos + 1 \in bad
                 /\ \A j \in bad : out.r.pos + 1 <= j
                 /\ out.r.invalid_char = input[out.r.pos + 1]

\* a name rejected for its third character, after two allowed ones, one of
\* them a letter
C7_Witness ==
    /\ out.op = "app_name"
    /\ ~out.r.ok
    /\ out.r.pos = 2
    /\ LowerA \in {input[1], input[2]}

-----------------------------------------------------------------------------
(* Properties of the dispatcher (under SpecRoute)                          *)

\* the route table: (component, method) -> handler
RouteTable ==
    {<<"", "Get", "index">>, <<"/", "Get", "index">>,
     <<"/static", "Get", "static">>, <<"/icons", "Get", "icons">>,
     <<"/apps", "Get", "apps">>, <<"/login", "Get", "login_page">>,
     <<"/login", "Post", "login">>, <<"/open_app", "Get", "open_app">>,
     <<"/logout", "Get", "logout">>}

\* the handlers the table gives a (component, method) pair
HandlersFor(component, method) ==
    {e[3] : e \in {x \in RouteTable : x[1] = component /\ x[2] = method}}

\* C13: a request whose path does not start with the mount prefix is
\* NotFound; otherwise the remainder splits into the component, which ends
\* before the first '/' after its first character (or is the whole remainder),
\* and the trailing remainder, which keeps its own '/' characters; the
\* (component, method) pair goes to the one handler the route table gives it,
\* and every pair outside the table is NotFound.
C13_Dispatch ==
    out.op = "route" =>
        LET r == out.r
            n == Len(MountPrefixChars)
            rem == SubSeq(input, n + 1, Len(input))
            later == {i \in 2..Len(rem) : rem[i] = Slash}
            k == CHOOSE i \in later : \A j \in later : i <= j
            hs == HandlersFor(ComponentStr(r.component), r.method)
        IN  IF Len(input) < n \/ SubSeq(input, 1, n) # MountPrefixChars
            THEN r.handler = "NotFound"
            ELSE /\ later = {} => r.component = rem /\ r.remaining = <<>>
                 /\ later # {} =>
                       /\ r.component = SubSeq(rem, 1, k - 1)
                       /\ r.remaining = SubSeq(rem, k + 1, Len(rem))
                       /\ rem = r.component \o <<Slash>> \o r.remaining
                 /\ Cardinality(hs) <= 1
                 /\ hs # {} => r.handler \in hs
                 /\ hs = {} => r.handler = "NotFound"
                 /\ (rem # <<>> /\ rem[1] # Slash) => r.handler = "NotFound"

\* GET {prefix}/static/a/b goes to the static handler with the remainder a/b
C13_Witness ==
    /\ out.op = "route"
    /\ out.r.handler = "static"
    /\ out.r.remaining = <<LowerA, Slash, 98>>
    /\ input = MountPrefixChars \o <<Slash, 115, 116, 97, 116, 105, 99, Slash,
                                     LowerA, Slash, 98>>

-----------------------------------------------------------------------------
(* Properties of the request handlers (under Spec)                         *)

Done(t) == pc[t] = "done"

At(t, component, method) ==
    Done(t) /\ req[t].component = component /\ req[t].method = method

\* the positions of the request's calls of one kind
CallsOf(t, op) == {i \in 1..Len(trace[t]) : trace[t][i].op = op}

\* the request's authentication failed with this RequestError
AuthFailed(t, e) ==
    \E i \in CallsOf(t, "auth_request") : trace[t][i].res = e

RequestErrors ==
    {"MissingCookies", "BadCookies", "NoUserRegistered", "InternalError",
     "InvalidUserName"}

IsRedirect(r) == r.status \in {301, 302, 303, 307, 308}

Cookie(name, value, max_age) ==
    [name |-> name, value |-> value, max_age |-> max_age]

\* a POST /login with both fields present and the name `admin`
AdminLogin(t) ==
    /\ At(t, "/login", "Post")
    /\ req[t].form.username = Field("ok", "admin")
    /\ req[t].form.password.st = "ok"

\* the store reported an error to the request
StoreError(t) ==
    \E i \in 1..Len(trace[t]) :
        trace[t][i].res \in {"DbGetUserError", "DbSetCookieError",
                             "DatabaseError"}

\* the responses of a login that is turned away
LoginRedirect == redirect(MountPrefix \o "/login", "SeeOther")

\* the response of the admin bootstrap: 303 to the portal root with the two
\* session cookies
BootstrapSuccess(t) ==
    /\ resp[t].status = 303
    /\ resp[t].location = MountPrefix
    /\ resp[t].cookies =
          <<Cookie("user_name", "admin", 31536000),
            Cookie("auth_token", users["admin"].token, 31536000)>>
    /\ users["admin"] =
          Account(req[t].form.password.v, users["admin"].token)
    /\ users["admin"].token \in Tokens

\* C1 as stated: from a store with no admin account a POST /login as `admin`
\* with any password succeeds and creates the account; a later POST /login as
\* `admin` with another password is redirected to {prefix}/login without
\* cookies and leaves the stored account unchanged.
C1_Original ==
    \A t \in Tasks : AdminLogin(t) =>
        LET before == trace[t][1].before["admin"]
        IN  /\ ~before.exists => BootstrapSuccess(t)
            /\ (before.exists /\ before.password # req[t].form.password.v) =>
                  /\ resp[t] = LoginRedirect
                  /\ users["admin"] = before

\* C1, amended: the first login as `admin` succeeds and creates the account
\* when the store reports no error, and creates no account when it does; a
\* later login as `admin` with another password sets no cookie and leaves the
\* stored account unchanged, and is redirected to {prefix}/login unless
\* signup reports DatabaseError, which yields 500.
C1_AdminBootstrapOnce ==
    \A t \in Tasks : AdminLogin(t) =>
        LET before == trace[t][1].before["admin"]
        IN  /\ (~before.exists /\ ~StoreError(t)) => BootstrapSuccess(t)
            /\ (~before.exists /\ StoreError(t)) =>
                  /\ ~users["admin"].exists
                  /\ resp[t].cookies = <<>>
            /\ (before.exists /\ before.password # req[t].form.password.v) =>
                  /\ resp[t].cookies = <<>>
                  /\ users["admin"] = before
                  /\ IF \E i \in CallsOf(t, "signup") :
                           trace[t][i].res = "DatabaseError"
                     THEN resp[t].status = 500
                     ELSE resp[t] = LoginRedirect

\* a login as `admin` with another password than the stored one, turned away
C1_Witness ==
    /\ AdminLogin("t1")
    /\ trace["t1"][1].before["admin"].exists
    /\ trace["t1"][1].before["admin"].password # req["t1"].form.password.v
    /\ CallsOf("t1", "signup") # {}
    /\ resp["t1"] = LoginRedirect

\* a login whose credential check did not succeed
LoginRejected(t) ==
    /\ At(t, "/login", "Post")
    /\ \E i \in CallsOf(t, "check_login") : trace[t][i].res # "Ok"

\* C2 as stated: signup is called only for the name `admin` and only when no
\* admin account exists; once one exists, a login that fails the credential
\* check is turned away as any other and creates or alters no account.
C2_Original ==
    \A t \in Tasks :
        /\ \A i \in CallsOf(t, "signup") :
              /\ req[t].form.username.v = "admin"
              /\ ~trace[t][i].before["admin"].exists
        /\ (LoginRejected(t) /\ trace[t][1].before["admin"].exists) =>
              /\ resp[t] = LoginRedirect
              /\ \A i \in 1..Len(trace[t]) :
                    trace[t][i].after = trace[t][i].before

\* C2, amended: signup is called only for the name `admin`, after check_login
\* reported BadUserPassword, and creates an account only when no admin
\* account exists; once one exists, a login that fails the credential check
\* creates or alters no account and sets no cookie, and is redirected to
\* {prefix}/login, or answered 500 when signup reports DatabaseError.
C2_BootstrapOnlyForAdmin ==
    \A t \in Tasks :
        /\ pc[t] = "signup" => req[t].form.username.v = "admin"
        /\ \A i \in CallsOf(t, "signup") :
              LET ev == trace[t][i]
              IN  /\ req[t].form.username.v = "admin"
                  /\ i = 2
                  /\ trace[t][1].op = "check_login"
                  /\ trace[t][1].res = "BadUserPassword"
                  /\ ev.after # ev.before =>
                        ~ev.before["admin"].exists /\ ev.res = "Ok"
                  /\ ev.before["admin"].exists =>
                        ev.res \in {"UserExists", "DatabaseError"}
        /\ (LoginRejected(t) /\ trace[t][1].before["admin"].exists) =>
              /\ resp[t].cookies = <<>>
              /\ \A i \in 1..Len(trace[t]) :
                    trace[t][i].after = trace[t][i].before
              /\ IF \E i \in CallsOf(t, "signup") :
                       trace[t][i].res = "DatabaseError"
                 THEN resp[t].status = 500
                 ELSE resp[t] = LoginRedirect

\* signup called, and refused, for an existing admin account
C2_Witness ==
    /\ Done("t1")
    /\ \E i \in CallsOf("t1", "signup") :
          /\ trace["t1"][i].before["admin"].exists
          /\ trace["t1"][i].res = "UserExists"
    /\ resp["t1"] = LoginRedirect

\* C3: for a dynamic application reached by an authenticated, authorized
\* user: exit 0 with UTF-8 stdout redirects to that stdout; exit 1 is 403
\* whatever stderr holds; any other exit code, or death by signal, is 500
\* whatever stderr holds; a failed spawn is 500; exit 0 with stdout that is
\* not UTF-8 is 500; nothing but exit 0 redirects.
C3_AuthorizerOutcome ==
    \A t \in Tasks : At(t, "/open_app", "Get") =>
        \A i \in CallsOf(t, "open") :
            LET po == trace[t][i].proc
                exit(c) == po.spawned /\ po.has_code /\ po.code = c
            IN  /\ ~po.spawned => resp[t].status = 500
                /\ (exit(0) /\ po.stdout_utf8) =>
                      /\ IsRedirect(resp[t])
                      /\ resp[t].location = Join(po.stdout)
                /\ (exit(0) /\ ~po.stdout_utf8) => resp[t].status = 500
                /\ exit(1) => resp[t].status = 403
                /\ (po.spawned /\ po.has_code /\ po.code \notin {0, 1}) =>
                      resp[t].status = 500
                /\ (po.spawned /\ ~po.has_code) => resp[t].status = 500
                /\ IsRedirect(resp[t]) => exit(0)

\* the entry point killed by a signal, its stderr not UTF-8: 500
C3_Witness ==
    /\ At("t1", "/open_app", "Get")
    /\ \E i \in CallsOf("t1", "open") :
          /\ trace["t1"][i].proc.spawned
          /\ ~trace["t1"][i].proc.has_code
          /\ ~trace["t1"][i].proc.stderr_utf8
    /\ resp["t1"].status = 500

\* the request was authenticated
Authenticated(t) ==
    /\ user[t] # NoAuth
    /\ \E i \in CallsOf(t, "auth_request") : trace[t][i].res = "Ok"

BothCookiesCleared(r) ==
    /\ Cookie("user_name", "", 0) \in {r.cookies[i] : i \in 1..Len(r.cookies)}
    /\ Cookie("auth_token", "", 0) \in {r.cookies[i] : i \in 1..Len(r.cookies)}

C8_ApiAuthPolicy ==
    \A t \in Tasks : At(t, "/apps", "Get") =>
        \A e \in RequestErrors : AuthFailed(t, e) =>
            /\ e \in {"MissingCookies", "BadCookies", "NoUserRegistered"} =>
                  resp[t].status = 401
            /\ e = "InternalError" => resp[t].status = 500
            /\ e = "InvalidUserName" => resp[t].status = 400
            /\ ~IsRedirect(resp[t])
            /\ resp[t].location = ""

\* GET /apps without a registered user: 401
C8_Witness ==
    /\ At("t1", "/apps", "Get")
    /\ AuthFailed("t1", "NoUserRegistered")
    /\ resp["t1"].status = 401

ViewRoutes == {"", "/", "/open_app", "/logout"}

\* C9: on GET of the portal root, /open_app and /logout an authentication
\* failure is answered 303 to {prefix}/login for MissingCookies, BadCookies
\* and InvalidUserName, 303 to {prefix}/login#uninitialized=true for
\* NoUserRegistered, and 500 for InternalError.
C9_ViewAuthPolicy ==
    \A t \in Tasks :
        (Done(t) /\ req[t].component \in ViewRoutes /\ req[t].method = "Get") =>
            \A e \in RequestErrors : AuthFailed(t, e) =>
                /\ e \in {"MissingCookies", "BadCookies", "InvalidUserName"} =>
                      /\ resp[t].status = 303
                      /\ resp[t].location = MountPrefix \o "/login"
                /\ e = "NoUserRegistered" =>
                      /\ resp[t].status = 303
                      /\ resp[t].location =
                            MountPrefix \o "/login#uninitialized=true"
                /\ e = "InternalError" => resp[t].status = 500

\* GET /open_app with a cookie whose user name is invalid: 303 to /login
C9_Witness ==
    /\ At("t1", "/open_app", "Get")
    /\ AuthFailed("t1", "InvalidUserName")
    /\ resp["t1"].status = 303
    /\ resp["t1"].location = MountPrefix \o "/login"

\* C10: an authenticated user who is no administrator and requests /open_app
\* for a registered admin_only application gets 403 and the entry point is
\* not run, whether the application is static or dynamic; an administrator
\* requesting a dynamic application has the entry point run with the user's
\* name as its only argument.
C10_AdminOnly ==
    \A t \in Tasks :
        (At(t, "/open_app", "Get") /\ Authenticated(t)
           /\ apps_get(req[t].remaining).found) =>
            LET app == apps_get(req[t].remaining)
            IN  /\ (app.admin_only /\ user[t].name # "admin") =>
                      /\ resp[t].status = 403
                      /\ CallsOf(t, "open") = {}
                /\ (user[t].name = "admin" /\ app.entry_point = "Dynamic") =>
                      \E i \in CallsOf(t, "open") :
                          /\ trace[t][i].args = <<user[t].name>>
                          /\ trace[t][i].path =
                                APP_ENTRY_POINTS_DIR \o <<Slash>>
                                   \o req[t].remaining
                                   \o <<Slash, 111, 112, 101, 110>>

\* a user who is no administrator turned away from the admin_only dynamic
\* application
C10_Witness ==
    /\ At("t1", "/open_app", "Get")
    /\ Authenticated("t1")
    /\ user["t1"].name = "bob"
    /\ apps_get(req["t1"].remaining) = App(TRUE, "Dynamic", "")
    /\ resp["t1"].status = 403

\* the routes that serve a file
StaticRoutes == {"", "/", "/static", "/icons", "/login"}

\* `file -i` did not deliver a content type: not spawned, exit status other
\* than 0, or output that is not UTF-8
SniffFailed(po) == ~po.spawned \/ ~(po.has_code /\ po.code = 0) \/ ~po.stdout_utf8

\* the content types derived from a file name's extension or given by the
\* caller
KnownContentTypes ==
    {"text/html", "text/css", "text/javascript", "image/png", "image/svg+xml"}

\* C11: serving a static asset answers 404 whenever the resolved path does
\* not exist, without any content-type derivation; when the path exists, a
\* failed content sniff (spawn failure, non-zero exit, output that is no
\* text) or a failed read answers 500; the answer is 200, with the body and
\* the resolved content type, only when existence, content type and read all
\* succeed.
C11_StaticStatus ==
    \A t \in Tasks :
        (Done(t) /\ req[t].component \in StaticRoutes /\ req[t].method = "Get") =>
            LET sniffs == CallsOf(t, "file")
                reads == CallsOf(t, "read")
                sniffFailed == \E j \in sniffs : SniffFailed(trace[t][j].proc)
                readFailed == \E j \in reads : trace[t][j].res = "failed"
            IN  /\ \A i \in CallsOf(t, "exists") :
                     /\ trace[t][i].res = "no" =>
                           /\ resp[t].status = 404
                           /\ sniffs = {} /\ reads = {}
                     /\ (trace[t][i].res = "yes" /\ sniffFailed) =>
                           resp[t].status = 500 /\ reads = {}
                     /\ (trace[t][i].res = "yes" /\ readFailed) =>
                           resp[t].status = 500
                     /\ (trace[t][i].res = "yes" /\ ~sniffFailed /\ ~readFailed) =>
                           /\ resp[t].status = 200
                           /\ resp[t].body = "file contents"
                           /\ \A j \in sniffs :
                                 trace[t][j].proc.stdout = <<"text/plain", "\n">>
                                    => resp[t].content_type = "text/plain"
                           /\ sniffs = {} =>
                                 resp[t].content_type \in KnownContentTypes
                /\ resp[t].status = 200 =>
                     /\ \E i \in CallsOf(t, "exists") : trace[t][i].res = "yes"
                     /\ \E j \in reads : trace[t][j].res = "ok"
                     /\ ~sniffFailed

\* a file that exists and whose content type was sniffed, but cannot be read
C11_Witness ==
    /\ At("t1", "/static", "Get")
    /\ \E i \in CallsOf("t1", "exists") : trace["t1"][i].res = "yes"
    /\ \E j \in CallsOf("t1", "file") : ~SniffFailed(trace["t1"][j].proc)
    /\ \E j \in CallsOf("t1", "read") : trace["t1"][j].res = "failed"
    /\ resp["t1"].status = 500

\* str::trim on a sequence of chunks: the whitespace chunks at both ends go
RECURSIVE TrimStart(_)
TrimStart(chunks) ==
    IF chunks # <<>> /\ Head(chunks) = "\n"
    THEN TrimStart(Tail(chunks))
    ELSE chunks

RECURSIVE TrimEnd(_)
TrimEnd(chunks) ==
    IF chunks # <<>> /\ chunks[Len(chunks)] = "\n"
    THEN TrimEnd(SubSeq(chunks, 1, Len(chunks) - 1))
    ELSE chunks

\* C12: when the entry point exits 0, the redirect URL sent to the client is
\* its entire standard output with leading and trailing whitespace trimmed.
C12_RedirectTrimmed ==
    \A t \in Tasks : At(t, "/open_app", "Get") =>
        \A i \in CallsOf(t, "open") :
            LET po == trace[t][i].proc
            IN  (po.spawned /\ po.has_code /\ po.code = 0 /\ po.stdout_utf8) =>
                   /\ IsRedirect(resp[t])
                   /\ resp[t].location = Join(TrimEnd(TrimStart(po.stdout)))

\* the store calls of the request that issued a session: a successful
\* check_login or a successful signup
Issued(t) ==
    {i \in CallsOf(t, "check_login") \cup CallsOf(t, "signup") :
        trace[t][i].res = "Ok"}

\* C14: every successful POST /login, by the ordinary credential check or by
\* the admin bootstrap, answers 303 to the portal root with exactly two
\* cookies, user_name (the authenticated name) and auth_token (the session
\* token the store issued for this login), both with Max-Age=31536000; a
\* successful logout answers with both cookies at Max-Age=0.
C14_SessionCookies ==
    \A t \in Tasks :
        /\ At(t, "/login", "Post") =>
              \A i \in Issued(t) :
                 LET name == req[t].form.username.v
                     token == trace[t][i].after[name].token
                 IN  /\ resp[t].status = 303
                     /\ resp[t].location = MountPrefix
                     /\ token \in Tokens
                     /\ resp[t].cookies =
                           <<Cookie("user_name", name, 31536000),
                             Cookie("auth_token", token, 31536000)>>
        /\ At(t, "/logout", "Get") =>
              \A i \in CallsOf(t, "logout") : trace[t][i].res = "Ok" =>
                 resp[t].cookies = <<Cookie("user_name", "", 0),
                                     Cookie("auth_token", "", 0)>>

\* an ordinary login of the registered user bob
C14_Witness ==
    /\ At("t1", "/login", "Post")
    /\ req["t1"].form.username.v = "bob"
    /\ \E i \in CallsOf("t1", "check_login") : trace["t1"][i].res = "Ok"
    /\ Len(resp["t1"].cookies) = 2

\* a POST /login whose credential check was made and did not succeed
CheckFailed(t) ==
    /\ At(t, "/login", "Post")
    /\ CallsOf(t, "check_login") # {}
    /\ trace[t][1].res # "Ok"

\* C15 as stated: the response of a POST /login whose credential check fails
\* is the same redirect to {prefix}/login without cookies, whether the
\* submitted user does not exist or the password is wrong, for every
\* username, `admin` included.
C15_Original ==
    \A t \in Tasks : CheckFailed(t) => resp[t] = LoginRedirect

\* C15, amended: for every username other than `admin` the response of a
\* POST /login whose credential check fails is the same redirect to
\* {prefix}/login without cookies, whether the user does not exist, the
\* password is wrong or the store reports an error; for `admin` a wrong
\* password for an existing account is answered with that redirect too (500
\* when signup reports DatabaseError), but a login while no admin account
\* exists creates the account and answers with the session cookies.
C15_NoUserEnumeration ==
    \A t \in Tasks : CheckFailed(t) =>
        LET name == req[t].form.username.v
            existed == trace[t][1].before[name].exists
            signups == CallsOf(t, "signup")
        IN  /\ name # "admin" => resp[t] = LoginRedirect /\ signups = {}
            /\ name = "admin" =>
                  /\ \A i \in signups :
                        /\ trace[t][i].res = "UserExists" =>
                              resp[t] = LoginRedirect
                        /\ trace[t][i].res = "DatabaseError" =>
                              resp[t].status = 500 /\ resp[t].cookies = <<>>
                        /\ trace[t][i].res = "Ok" =>
                              /\ ~trace[t][i].before["admin"].exists
                              /\ resp[t].status = 303
                              /\ resp[t].location = MountPrefix
                              /\ Len(resp[t].cookies) = 2
                  /\ signups = {} => resp[t] = LoginRedirect
                  /\ (existed /\ resp[t].status # 500) =>
                        resp[t] = LoginRedirect

\* a login for a user that does not exist, turned away like a wrong password
C15_Witness ==
    /\ CheckFailed("t1")
    /\ req["t1"].form.username.v = "adminx"
    /\ ~trace["t1"][1].before["adminx"].exists
    /\ trace["t1"][1].res = "BadUserPassword"
    /\ resp["t1"] = LoginRedirect

\* a subprocess whose output is decoded: it was spawned and exited 0
Decoded(po) == po.spawned /\ po.has_code /\ po.code = 0

\* the request met a failure of its environment other than a store error of
\* the credential check: a subprocess not spawned, standard output that is
\* not UTF-8, a failed read, or an internal error of the store
EnvFailure(t) ==
    \E i \in 1..Len(trace[t]) :
        LET ev == trace[t][i]
        IN  \/ ev.op \in {"file", "open"} /\ ~ev.proc.spawned
            \/ ev.op \in {"file", "open"} /\ Decoded(ev.proc)
                  /\ ~ev.proc.stdout_utf8
            \/ ev.op = "read" /\ ev.res = "failed"
            \/ ev.op \in {"signup", "logout"} /\ ev.res = "DatabaseError"
            \/ ev.op = "auth_request" /\ ev.res = "InternalError"

\* the credential check of a login reported DbGetUserError or DbSetCookieError
CheckStoreError(t) ==
    \E i \in CallsOf(t, "check_login") :
        trace[t][i].res \in {"DbGetUserError", "DbSetCookieError"}

\* the one response of an internal error
PlainInternalServerError ==
    [status |-> 500, body |-> "Internal server error", location |-> "",
     content_type |-> "", cookies |-> <<>>]

\* C16 as stated: every failure of the environment - a failed spawn,
\* subprocess output that is not UTF-8, a failed read after the existence
\* check, any internal error of the credential store, DbGetUserError and
\* DbSetCookieError during login included - is answered 500 with a body
\* that carries no detail of the failure.
C16_Original ==
    \A t \in Tasks :
        (Done(t) /\ (EnvFailure(t) \/ CheckStoreError(t))) =>
            resp[t] = PlainInternalServerError

\* C16, amended: a failed spawn, standard output of a subprocess that is
\* not UTF-8, a failed read after the existence check, DatabaseError during
\* signup or logout and InternalError during authentication are answered 500
\* with the fixed body "Internal server error"; DbGetUserError and
\* DbSetCookieError during the credential check of a login are answered with
\* the redirect to {prefix}/login, without cookies and without a body.
C16_EnvFailures ==
    \A t \in Tasks : Done(t) =>
        /\ EnvFailure(t) => resp[t] = PlainInternalServerError
        /\ CheckStoreError(t) => resp[t] = LoginRedirect
        /\ resp[t].status = 500 => resp[t] = PlainInternalServerError

\* an entry point that exits 0 with output that is not UTF-8
C16_Witness ==
    /\ At("t1", "/open_app", "Get")
    /\ \E i \in CallsOf("t1", "open") :
          /\ Decoded(trace["t1"][i].proc)
          /\ ~trace["t1"][i].proc.stdout_utf8
    /\ resp["t1"] = PlainInternalServerError

\* the routes that authenticate the caller
GatedRoutes == {"", "/", "/apps", "/open_app", "/logout"}

\* the positions of the request's filesystem and subprocess accesses
Accesses(t) ==
    {i \in 1..Len(trace[t]) : trace[t][i].op \in {"exists", "file", "read", "open"}}

\* a successful authentication before position i
AuthenticatedBefore(t, i) ==
    \E j \in CallsOf(t, "auth_request") : j < i /\ trace[t][j].res = "Ok"

C18_LoginCheckOrder ==
    \A t \in Tasks : At(t, "/login", "Post") =>
        LET form == req[t].form
            fieldsOk == form.username.st = "ok" /\ form.password.st = "ok"
        IN  /\ ~fieldsOk =>
                  /\ resp[t] = LoginRedirect
                  /\ trace[t] = <<>>
            /\ (fieldsOk /\ form.username.v \notin ValidNames) =>
                  /\ resp[t].status = 400
                  /\ resp[t].body =
                        "Invalid request: user name contains invalid character"
                  /\ trace[t] = <<>>
            /\ (fieldsOk /\ form.username.v \in ValidNames) =>
                  /\ trace[t] # <<>>
                  /\ trace[t][1].op = "check_login"

\* an invalid username with the password field missing: the redirect, not 400
C18_Witness ==
    /\ At("t1", "/login", "Post")
    /\ req["t1"].form.username = Field("ok", "b@d")
    /\ req["t1"].form.password.st = "missing"
    /\ resp["t1"] = LoginRedirect
    /\ trace["t1"] = <<>>

-----------------------------------------------------------------------------
(* Properties of concurrent logins (under SpecRace)                        *)

\* the logins as `admin` in progress or answered whose credential check ran
\* against a store with no admin account
Racing ==
    {t \in Tasks :
        /\ pc[t] \in {"signup", "done"}
        /\ req[t].form.username = Field("ok", "admin")
        /\ trace[t] # <<>>
        /\ ~trace[t][1].before["admin"].exists}

\* the requests whose signup created the account
Winners == {t \in Racing : \E i \in CallsOf(t, "signup") : trace[t][i].res = "Ok"}

\* C19: when logins as `admin` with different passwords run concurrently
\* against a store with no admin account, their check_login and signup
\* calls interleaving, at most one of them creates the account and receives
\* session cookies; every other one whose signup reports UserExists is
\* redirected to {prefix}/login without cookies; the stored admin
\* credentials are those of the one winner.
C19_RaceSingleWinner ==
    \A a \in Racing, b \in Racing :
        (a # b /\ req[a].form.password.v # req[b].form.password.v) =>
            /\ Cardinality(Winners) <= 1
            /\ \A t \in Racing :
                  /\ resp[t].cookies # <<>> => t \in Winners
                  /\ (\E i \in CallsOf(t, "signup") :
                         trace[t][i].res = "UserExists") =>
                        resp[t] = LoginRedirect
            /\ \A w \in Winners :
                  /\ users["admin"].exists
                  /\ users["admin"].password = req[w].form.password.v
                  /\ resp[w].cookies =
                        <<Cookie("user_name", "admin", 31536000),
                          Cookie("auth_token", users["admin"].token, 31536000)>>
            /\ Winners = {} => ~users["admin"].exists

\* both logins passed the credential check before either signed up; t1 won,
\* t2 was told UserExists and redirected
C19_Witness ==
    /\ Racing = {"t1", "t2"}
    /\ req["t1"].form.password.v # req["t2"].form.password.v
    /\ Winners = {"t1"}
    /\ Done("t2")
    /\ \E i \in CallsOf("t2", "signup") : trace["t2"][i].res = "UserExists"
    /\ resp["t2"] = LoginRedirect
    /\ users["admin"].password = req["t1"].form.password.v

\* the redirects of the error mapper
ErrorRedirects ==
    {MountPrefix \o "/login", MountPrefix \o "/login#uninitialized=true"}

\* the response needs an identity: the index page, the application list, the
\* redirect into an application, the redirect that clears the cookies
NeedsIdentity(t) ==
    \/ req[t].component \in {"", "/"} /\ resp[t].status = 200
    \/ req[t].component = "/apps" /\ resp[t].status = 200
    \/ req[t].component = "/open_app" /\ IsRedirect(resp[t])
          /\ resp[t].location \notin ErrorRedirects
    \/ req[t].component = "/logout" /\ resp[t].cookies # <<>>

\* the calls made for an identified caller: the registry lookup, the entry
\* point, the store's logout
IdentityCalls(t) ==
    CallsOf(t, "apps.get") \cup CallsOf(t, "open") \cup CallsOf(t, "logout")

\* C20: the index page, the application list, a redirect into an
\* application and the cookie-clearing redirect of /logout are produced only
\* by a request whose authentication call succeeded; a request whose
\* authentication failed makes no registry lookup, runs no entry point and
\* does not call the store's logout.
C20_IdentityRequired ==
    \A t \in Tasks :
        /\ (Done(t) /\ req[t].method = "Get" /\ NeedsIdentity(t)) =>
              /\ \E i \in CallsOf(t, "auth_request") : trace[t][i].res = "Ok"
              /\ user[t] # NoAuth
        /\ (\E e \in RequestErrors : AuthFailed(t, e)) =>
              /\ IdentityCalls(t) = {}
              /\ pc[t] # "logout"
              /\ resp[t].status # 200
              /\ resp[t].cookies = <<>>
        /\ pc[t] = "logout" =>
              \E i \in CallsOf(t, "auth_request") : trace[t][i].res = "Ok"

\* GET /apps with cookies that do not match: no list
C20_Witness ==
    /\ At("t1", "/apps", "Get")
    /\ AuthFailed("t1", "BadCookies")
    /\ resp["t1"].status = 401
    /\ IdentityCalls("t1") = {}

-----------------------------------------------------------------------------
(* Further properties of the request handlers (under Spec)                 *)

\* the application name is made of lowercase letters and '-' only
ValidAppName(s) == \A i \in 1..Len(s) : s[i] \in AllowedAppNameChars

\* what a caller whose authentication failed with e gets on a view route
UnauthenticatedResponse(e) ==
    CASE e \in {"MissingCookies", "BadCookies", "InvalidUserName"} ->
            LoginRedirect
      [] e = "NoUserRegistered" ->
            redirect(MountPrefix \o "/login#uninitialized=true", "SeeOther")
      [] e = "InternalError" -> PlainInternalServerError

\* C21: on GET /open_app with a syntactically valid application name, a
\* caller whose authentication fails gets a response that depends on the
\* authentication failure alone, the same whether or not the application is
\* registered, and the registry is not consulted; 404 goes to authenticated
\* callers only; a syntactically invalid name is answered 400 before
\* authentication is attempted, for every caller.
C21_OpenAppNoEnumeration ==
    \A t \in Tasks : At(t, "/open_app", "Get") =>
        /\ ~ValidAppName(req[t].remaining) =>
              /\ resp[t].status = 400
              /\ resp[t].body = "Invalid request: invalid application name"
              /\ trace[t] = <<>>
        /\ ValidAppName(req[t].remaining) =>
              /\ trace[t] # <<>>
              /\ trace[t][1].op = "auth_request"
              /\ \A e \in RequestErrors : AuthFailed(t, e) =>
                    /\ resp[t] = UnauthenticatedResponse(e)
                    /\ CallsOf(t, "apps.get") = {}
        /\ resp[t].status = 404 =>
              /\ trace[t][1].op = "auth_request" /\ trace[t][1].res = "Ok"
              /\ ~apps_get(req[t].remaining).found

\* a caller without cookies asking for an application that is not
\* registered: the redirect to the login page, not 404
C21_Witness ==
    /\ At("t1", "/open_app", "Get")
    /\ ValidAppName(req["t1"].remaining)
    /\ ~apps_get(req["t1"].remaining).found
    /\ AuthFailed("t1", "MissingCookies")
    /\ resp["t1"] = LoginRedirect

\* the kinds of enum Error, each with a message
ErrorKinds ==
    {"NotAuthorized", "Forbidden", "InvalidData", "NotFound",
     "InternalServerError", "RedirectToLogin", "RedirectToRegistration"}

\* the two cookies of a login, for some name and token
IsLoginCookies(cs) ==
    /\ Len(cs) = 2
    /\ cs[1].name = "user_name" /\ cs[1].max_age = 31536000
    /\ cs[2].name = "auth_token" /\ cs[2].max_age = 31536000

\* the two cookies of a logout
IsLogoutCookies(cs) ==
    cs = <<Cookie("user_name", "", 0), Cookie("auth_token", "", 0)>>

\* C22: a response sets cookies in two cases only: a successful login or
\* admin bootstrap (both cookies, Max-Age=31536000) and a successful logout
\* (both cookies, Max-Age=0); no response of the error mapper and no
\* static-asset, application-list or application-redirect response sets a
\* cookie, and no response sets just one of the two cookies.
C22_CookiesOnlyOnLoginLogout ==
    /\ \A k \in ErrorKinds :
          Error_response(Err(k, "reason"), MountPrefix).cookies = <<>>
    /\ \A t \in Tasks : Done(t) =>
          /\ Len(resp[t].cookies) \in {0, 2}
          /\ resp[t].cookies # <<>> =>
                \/ /\ req[t].component = "/login" /\ req[t].method = "Post"
                   /\ Issued(t) # {}
                   /\ IsLoginCookies(resp[t].cookies)
                \/ /\ req[t].component = "/logout" /\ req[t].method = "Get"
                   /\ \E i \in CallsOf(t, "logout") : trace[t][i].res = "Ok"
                   /\ IsLogoutCookies(resp[t].cookies)
          /\ (At(t, "/login", "Post") /\ Issued(t) # {}) =>
                IsLoginCookies(resp[t].cookies)
          /\ (\E i \in CallsOf(t, "logout") : trace[t][i].res = "Ok") =>
                IsLogoutCookies(resp[t].cookies)
          /\ (req[t].component \in {"", "/", "/static", "/icons", "/apps",
                                    "/open_app"}
                \/ (req[t].method = "Get" /\ req[t].component = "/login")
                \/ resp[t].status \in {400, 401, 403, 404, 500}) =>
                resp[t].cookies = <<>>

\* a logout that succeeded: the one response with cookies at Max-Age=0
C22_Witness ==
    /\ At("t1", "/logout", "Get")
    /\ \E i \in CallsOf("t1", "logout") : trace["t1"][i].res = "Ok"
    /\ IsLogoutCookies(resp["t1"].cookies)

====
